---- MODULE Spec2Model ----
(***************************************************************************)
(* State-machine model of service-worker.js (attendance-pwa): the install, *)
(* activate, fetch and notificationclick handlers, the four request        *)
(* strategies and the cache storage and network they run against.          *)
(*                                                                         *)
(* Strings the code inspects (URLs, header values, asset names) are        *)
(* sequences of tokens, so that includes / endsWith / replace / RegExp     *)
(* test are computed on them the way the code computes them.               *)
(***************************************************************************)
EXTENDS Integers, Sequences, FiniteSets, TLC

\* Number of fetch events dispatched in one run (handler tasks).
MaxTasks == 1

------------------------------------------------------------------------------
\* String helpers (token sequences)

\* String.prototype.includes / RegExp.test of a literal pattern
Includes(s, pat) ==
  \E i \in 1..(Len(s) - Len(pat) + 1) : SubSeq(s, i, i + Len(pat) - 1) = pat

\* String.prototype.endsWith
EndsWith(s, suf) ==
  /\ Len(suf) <= Len(s)
  /\ SubSeq(s, Len(s) - Len(suf) + 1, Len(s)) = suf

\* String.prototype.replace(tok, ''): removes the first occurrence of tok
RECURSIVE ReplaceFirst(_, _)
ReplaceFirst(s, tok) ==
  IF s = <<>> THEN <<>>
  ELSE IF Head(s) = tok THEN Tail(s)
  ELSE <<Head(s)>> \o ReplaceFirst(Tail(s), tok)

------------------------------------------------------------------------------
\* Program constants

CACHE_NAME    == "attendance-pwa-v1.2"
STATIC_CACHE  == "attendance-static-v1.2"
DYNAMIC_CACHE == "attendance-dynamic-v1.2"

\* Namespaces left behind by an earlier release of the worker.
OLD_CACHE   == "attendance-static-v1.1"
OLD_DYNAMIC == "attendance-dynamic-v1.1"

KnownCaches == {STATIC_CACHE, DYNAMIC_CACHE, CACHE_NAME}
AllCaches   == KnownCaches \cup {OLD_CACHE, OLD_DYNAMIC}

STATIC_RESOURCES ==
  << <<"./">>, <<"./", "index.html">>, <<"./", "manifest.json">>, <<"./", "logo.png">> >>

GAS_PATTERNS ==
  << <<"script", ".", "google", ".", "com">>,
     <<"script", ".", "googleapis", ".", "com">>,
     <<"googleusercontent", ".", "com">> >>

------------------------------------------------------------------------------
\* URLs and requests

AppHost == <<"app", ".", "example">>
GasHost == <<"script", ".", "google", ".", "com">>

MkUrl(proto, host, path, search) ==
  [protocol |-> proto, host |-> host, pathname |-> path, search |-> search]

\* URL.href
Href(u) == <<u.protocol, "//">> \o u.host \o u.pathname \o u.search

\* The URLs of the model.  The state refers to a URL by its field name here.
UrlTable ==
  [root     |-> MkUrl("https:", AppHost, <<"/">>, <<>>),
   index    |-> MkUrl("https:", AppHost, <<"/", "index.html">>, <<>>),
   manifest |-> MkUrl("https:", AppHost, <<"/", "manifest.json">>, <<>>),
   logo     |-> MkUrl("https:", AppHost, <<"/", "logo.png">>, <<>>),
   data     |-> MkUrl("https:", AppHost, <<"/", "api", "/", "data">>, <<>>),
   photo    |-> MkUrl("https:", AppHost, <<"/", "img", "/", "photo", ".png">>, <<>>),
   plain    |-> MkUrl("http:", AppHost, <<"/", "api", "/", "report">>, <<>>),
   gas      |-> MkUrl("https:", GasHost, <<"/", "macros", "/", "exec">>, <<>>),
   gapi     |-> MkUrl("https:", <<"script", ".", "googleapis", ".", "com">>,
                      <<"/", "v1">>, <<>>),
   guc      |-> MkUrl("https:", <<"lh3", ".", "googleusercontent", ".", "com">>,
                      <<"/", "a", ".png">>, <<>>),
   next     |-> MkUrl("https:", AppHost, <<"/">>, <<"?", "next", "=">> \o GasHost),
   ext      |-> MkUrl("chrome-extension:", <<"abcdef">>, <<"/", "x", ".js">>, <<>>)]

UrlIds == DOMAIN UrlTable
Url(id) == UrlTable[id]
UrlId(u) == CHOOSE id \in UrlIds : UrlTable[id] = u

\* The worker script is served from the root of the app's origin; a relative
\* URL ('./x') is resolved against it.
Resolve(res) ==
  UrlId(MkUrl("https:", AppHost, <<"/">> \o ReplaceFirst(res, "./"), <<>>))

IndexUrl == Resolve(<<"./", "index.html">>)

AssetUrls == { Resolve(STATIC_RESOURCES[i]) : i \in 1..Len(STATIC_RESOURCES) }

AcceptHtml  == <<"text/html", ",", "application/xhtml+xml", ",", "*/*">>
AcceptImage == <<"image/", "avif", ",", "image/", "webp", ",", "*/*">>
AcceptJson  == <<"application/json">>
AcceptNone  == <<>>   \* no Accept header: headers.get('accept') is null

MkReq(method, url, accept, mode) ==
  [method |-> method, url |-> url, accept |-> accept, mode |-> mode]

\* The requests of the model.  The state refers to a request by its field
\* name here.
ReqTable ==
  [navIndex  |-> MkReq("GET", "index", AcceptHtml, "navigate"),
   navData   |-> MkReq("GET", "data", AcceptHtml, "navigate"),
   getPlain  |-> MkReq("GET", "plain", AcceptJson, "cors"),
   getPhoto  |-> MkReq("GET", "photo", AcceptImage, "no-cors"),
   postData  |-> MkReq("POST", "data", AcceptJson, "cors"),
   getGas    |-> MkReq("GET", "gas", AcceptJson, "cors"),
   postGas   |-> MkReq("POST", "gas", AcceptJson, "cors"),
   getGapi   |-> MkReq("GET", "gapi", AcceptNone, "cors"),
   getGuc    |-> MkReq("GET", "guc", AcceptImage, "no-cors"),
   navNext   |-> MkReq("GET", "next", AcceptHtml, "navigate"),
   getExt    |-> MkReq("GET", "ext", AcceptNone, "no-cors")]

Requests == DOMAIN ReqTable
Req(r) == ReqTable[r]

------------------------------------------------------------------------------
\* fetch listener: the pre-filter

MatchesGas(url) ==
  \E i \in 1..Len(GAS_PATTERNS) : Includes(Href(url), GAS_PATTERNS[i])

\* Intercepts without the scheme test.
InterceptsAnyScheme(req) ==
  IF req.method # "GET" THEN FALSE
  ELSE IF MatchesGas(Url(req.url)) THEN FALSE
  ELSE TRUE

\* TRUE iff the listener reaches event.respondWith(handleRequest(request)).
Intercepts(req) ==
  IF req.method # "GET" THEN FALSE
  ELSE IF MatchesGas(Url(req.url)) THEN FALSE
  ELSE IF Url(req.url).protocol # "http:" /\ Url(req.url).protocol # "https:"
  THEN FALSE
  ELSE TRUE

\* Cache keys: the URLs a cache entry can be stored under.
Keys == AssetUrls \cup { Req(r).url : r \in { q \in Requests : Intercepts(Req(q)) } }

------------------------------------------------------------------------------
\* handleRequest: the classification

IsStaticResource(url) ==
  \E i \in 1..Len(STATIC_RESOURCES) :
     EndsWith(url.pathname, ReplaceFirst(STATIC_RESOURCES[i], "./"))

AcceptIncludes(req, tok) == Includes(req.accept, <<tok>>)

Strategy(req) ==
  IF IsStaticResource(Url(req.url)) THEN "cacheFirst"
  ELSE IF AcceptIncludes(req, "text/html") THEN "networkFirstWithFallback"
  ELSE IF AcceptIncludes(req, "image/") THEN "cacheFirst"
  ELSE "networkFirst"

------------------------------------------------------------------------------
\* Responses

NoEntry == [kind |-> "none"]

\* A response obtained by fetch(): by names the code that issued the fetch,
\* via the cache mode of its request ('reload' always goes to the network;
\* with the default mode the browser's HTTP cache may answer instead).
NetResp(url, status, by, via) ==
  [kind |-> "net", url |-> url, status |-> status, by |-> by, via |-> via]

\* Response.ok
Ok(resp) == resp.status \in 200..299

\* The offline response with an error status.
OfflineResponse503 ==
  [kind |-> "synthetic", status |-> 503, statusText |-> "Service Unavailable",
   contentType |-> "application/json",
   body |-> [error |-> "Offline",
             message |-> "You are currently offline. Please check your connection."]]

\* The response getOfflineFallback builds.
OfflineResponse ==
  [kind |-> "synthetic", status |-> 200, statusText |-> "OK",
   contentType |-> "application/json",
   body |-> [error |-> "Offline",
             message |-> "You are currently offline. Please check your connection."]]

NetworkError == [kind |-> "error", name |-> "TypeError"]

\* What a fetch can settle with: an ok response, a non-ok response, or a
\* transport error.
Outcomes == {"ok", "nonok", "fail"}

FetchResult(url, cacheMode, by, outcome) ==
  CASE outcome = "ok"    -> NetResp(url, 200, by, cacheMode)
    [] outcome = "nonok" -> NetResp(url, 404, by, cacheMode)
    [] OTHER             -> NetworkError

------------------------------------------------------------------------------
\* Cache storage

EmptyCache == [k \in Keys |-> NoEntry]

\* caches.match(request): the first namespace, in creation order, that holds
\* an entry for the URL.
RECURSIVE MatchIn(_, _, _)
MatchIn(names, data, url) ==
  IF names = <<>> THEN NoEntry
  ELSE IF data[Head(names)][url] # NoEntry THEN data[Head(names)][url]
  ELSE MatchIn(Tail(names), data, url)

Exists(names, n) == \E i \in 1..Len(names) : names[i] = n

\* caches.open(name): creates the namespace when it does not exist.
OpenCache(names, n) == IF Exists(names, n) THEN names ELSE Append(names, n)

\* caches.delete(name)
RECURSIVE Without(_, _)
Without(names, n) ==
  IF names = <<>> THEN <<>>
  ELSE IF Head(names) = n THEN Without(Tail(names), n)
  ELSE <<Head(names)>> \o Without(Tail(names), n)

PreResp(url) == NetResp(url, 200, "pre", "default")

\* Cache storage the worker can find when it starts: nothing (first visit),
\* the namespaces of an earlier release (with the umbrella namespace), its own
\* namespaces as an earlier run left them after an install whose addAll was
\* rejected, or its own namespaces as a successful install left them.  Every
\* stored entry is an ok response.
InitStores ==
  { [names |-> <<>>,
     data  |-> [n \in AllCaches |-> EmptyCache]],
    [names |-> <<OLD_CACHE, OLD_DYNAMIC, CACHE_NAME>>,
     data  |-> [n \in AllCaches |->
                 IF n = OLD_CACHE
                 THEN [k \in Keys |-> IF k = "index" THEN PreResp(k) ELSE NoEntry]
                 ELSE IF n = OLD_DYNAMIC
                 THEN [k \in Keys |-> IF k = "data" THEN PreResp(k) ELSE NoEntry]
                 ELSE EmptyCache]],
    [names |-> <<STATIC_CACHE, DYNAMIC_CACHE>>,
     data  |-> [n \in AllCaches |->
                 IF n = STATIC_CACHE
                 THEN [k \in Keys |-> IF k \in {"data", "photo"}
                                      THEN PreResp(k) ELSE NoEntry]
                 ELSE EmptyCache]],
    [names |-> <<STATIC_CACHE, DYNAMIC_CACHE>>,
     data  |-> [n \in AllCaches |->
                 IF n = STATIC_CACHE
                 THEN [k \in Keys |-> IF k \in AssetUrls
                                      THEN NetResp(k, 200, "install", "reload")
                                      ELSE NoEntry]
                 ELSE EmptyCache]] }

------------------------------------------------------------------------------
\* State

VARIABLES
  cacheNames,   \* CacheStorage: the existing namespaces, in creation order
  cacheData,    \* CacheStorage: namespace -> (URL -> entry)
  tasks,        \* one record per fetch event / strategy call
  install,      \* the install handler
  activate,     \* the activate handler
  notify        \* the notificationclick handler

vars == <<cacheNames, cacheData, tasks, install, activate, notify>>

TaskIds == 1..MaxTasks

IdleTask ==
  [pc       |-> "idle",
   respondWith |-> FALSE,   \* the listener called event.respondWith
   req      |-> "none",      \* the event's request (a field of ReqTable)
   fn       |-> "none",     \* the strategy function the call runs
   handled  |-> FALSE,      \* it runs inside handleRequest's try block
   stack    |-> <<>>,       \* the JS call stack of the handler
   lookup   |-> NoEntry,    \* what caches.match(request) resolved with
   failed   |-> FALSE,      \* the awaited fetch rejected
   resp     |-> NoEntry,    \* networkResponse
   shell    |-> "unread",   \* outcome of caches.match('./index.html')
   bg       |-> "none",     \* the detached refresh / the un-awaited cache.put
   bgCache  |-> "",
   bgResp   |-> NoEntry,
   bgIssued |-> 0,          \* background fetches issued by this call
   outcome  |-> [kind |-> "pending", value |-> NoEntry]]

IdleNotify ==
  [pc      |-> "idle",
   action  |-> "",
   clients |-> <<>>,     \* what clients.matchAll resolved with
   waitUntil |-> FALSE,  \* the listener called event.waitUntil
   calls   |-> <<>>]     \* the host calls the handler made, in order

Init ==
  /\ \E st \in InitStores : cacheNames = st.names /\ cacheData = st.data
  /\ tasks = [t \in TaskIds |-> IdleTask]
  /\ install = [pc |-> "idle", static |-> "none", dynamic |-> "none",
                skipWaiting |-> FALSE, promise |-> "pending"]
  /\ activate = [pc |-> "idle", names |-> <<>>, pending |-> {}, claimed |-> FALSE]
  /\ notify = IdleNotify

------------------------------------------------------------------------------
\* Control flow of one handler: calls, returns and throws

Top(stack) == stack[Len(stack)]
Pop(stack) == SubSeq(stack, 1, Len(stack) - 1)

\* A value returned by the function on top of the stack: every caller is a
\* 'return await f(request)', so it reaches the promise the handler returned.
Return(tk, v) ==
  [tk EXCEPT !.pc = "done", !.stack = <<>>,
             !.outcome = [kind |-> "fulfilled", value |-> v]]

\* getOfflineFallback without the navigation branch.
GetOfflineFallbackNoShell(tk, frames) == Return(tk, OfflineResponse)

\* getOfflineFallback(request), called from handleRequest's catch block.
GetOfflineFallback(tk, frames) ==
  IF Req(tk.req).mode = "navigate"
  THEN [tk EXCEPT !.pc = "of_match", !.stack = Append(frames, "getOfflineFallback")]
  ELSE Return(tk, OfflineResponse)

\* Throw with no catch block anywhere.
ThrowUncaught(tk, frames) ==
  [tk EXCEPT !.pc = "done", !.stack = <<>>,
             !.outcome = [kind |-> "rejected", value |-> NetworkError]]

\* Throw with networkFirstWithFallback's catch not testing request.mode.
ThrowFallbackAnyMode(tk, frames) ==
  IF frames = <<>> THEN ThrowUncaught(tk, frames)
  ELSE IF Top(frames) = "handleRequest" THEN GetOfflineFallback(tk, frames)
  ELSE IF Top(frames) = "networkFirstWithFallback"
  THEN [tk EXCEPT !.pc = "fb_match", !.stack = frames]
  ELSE ThrowUncaught(tk, frames)

\* An error thrown into the frames of the callers: the innermost catch block
\* takes it, or the handler's promise rejects.
RECURSIVE Throw(_, _)
Throw(tk, frames) ==
  IF frames = <<>>
  THEN [tk EXCEPT !.pc = "done", !.stack = <<>>,
                  !.outcome = [kind |-> "rejected", value |-> NetworkError]]
  ELSE IF Top(frames) = "handleRequest"
  THEN GetOfflineFallback(tk, frames)
  ELSE IF Top(frames) = "networkFirstWithFallback"
  THEN IF Req(tk.req).mode = "navigate"
       THEN [tk EXCEPT !.pc = "fb_match", !.stack = frames]
       ELSE Throw(tk, Pop(frames))
  ELSE Throw(tk, Pop(frames))

\* The synchronous part of a call to f, up to its first await.
RECURSIVE Call(_, _, _)
Call(tk, frames, f) ==
  CASE f = "handleRequest" ->
         Call([tk EXCEPT !.handled = TRUE], Append(frames, f), Strategy(Req(tk.req)))
    [] f = "networkFirstWithFallback" ->
         Call([tk EXCEPT !.fn = f], Append(frames, f), "networkFirst")
    [] f = "cacheFirst" ->
         [tk EXCEPT !.pc = "cf_match", !.stack = Append(frames, f),
                    !.fn = IF @ = "none" THEN f ELSE @]
    [] f = "networkFirst" ->
         [tk EXCEPT !.pc = "nf_fetch", !.stack = Append(frames, f),
                    !.fn = IF @ = "none" THEN f ELSE @]
    [] OTHER -> GetOfflineFallback([tk EXCEPT !.fn = f], frames)

------------------------------------------------------------------------------
\* fetch events

\* Events take the task slots in order.
NextSlot(t) ==
  /\ tasks[t].pc = "idle"
  /\ \A u \in TaskIds : u < t => tasks[u].pc # "idle"

\* self.addEventListener('fetch', ...)
FetchEvent(t, req) ==
  /\ NextSlot(t)
  /\ tasks' = [tasks EXCEPT ![t] =
        IF Intercepts(Req(req))
        THEN Call([IdleTask EXCEPT !.req = req, !.respondWith = TRUE],
                  <<>>, "handleRequest")
        ELSE [IdleTask EXCEPT !.req = req, !.pc = "passthrough"]]
  /\ UNCHANGED <<cacheNames, cacheData, install, activate, notify>>

------------------------------------------------------------------------------
\* cacheFirst

\* CFMatch looking only into the static namespace.
CFMatchStaticOnly(t) ==
  LET tk    == tasks[t]
      found == IF Exists(cacheNames, STATIC_CACHE)
               THEN cacheData[STATIC_CACHE][Req(tk.req).url] ELSE NoEntry
  IN /\ tk.pc = "cf_match"
     /\ tasks' = [tasks EXCEPT ![t] =
           IF found # NoEntry
           THEN Return([tk EXCEPT !.lookup = found, !.bg = "fetching",
                                  !.bgIssued = @ + 1], found)
           ELSE [tk EXCEPT !.pc = "cf_fetch"]]
     /\ UNCHANGED <<cacheNames, cacheData, install, activate, notify>>

\* CFMatch without the refresh fetch on a hit.
CFMatchNoRefresh(t) ==
  LET tk    == tasks[t]
      found == MatchIn(cacheNames, cacheData, Req(tk.req).url)
  IN /\ tk.pc = "cf_match"
     /\ tasks' = [tasks EXCEPT ![t] =
           IF found # NoEntry
           THEN Return([tk EXCEPT !.lookup = found], found)
           ELSE [tk EXCEPT !.pc = "cf_fetch"]]
     /\ UNCHANGED <<cacheNames, cacheData, install, activate, notify>>

\* const cachedResponse = await caches.match(request) resolves.  On a hit the
\* refresh fetch is started and the entry returned in the same turn; on a
\* miss the live fetch is started and awaited.
CFMatch(t) ==
  LET tk    == tasks[t]
      found == MatchIn(cacheNames, cacheData, Req(tk.req).url)
  IN /\ tk.pc = "cf_match"
     /\ tasks' = [tasks EXCEPT ![t] =
           IF found # NoEntry
           THEN Return([tk EXCEPT !.lookup = found, !.bg = "fetching",
                                  !.bgIssued = @ + 1], found)
           ELSE [tk EXCEPT !.pc = "cf_fetch"]]
     /\ UNCHANGED <<cacheNames, cacheData, install, activate, notify>>

\* await fetch(request) settles (miss path).
CFFetch(t, outcome) ==
  LET tk == tasks[t]
  IN /\ tk.pc = "cf_fetch"
     /\ LET r == FetchResult(Req(tk.req).url, "default", "fetch", outcome) IN
          tasks' = [tasks EXCEPT ![t] =
            IF outcome = "fail" THEN Throw([tk EXCEPT !.failed = TRUE], Pop(tk.stack))
            ELSE IF Ok(r) THEN [tk EXCEPT !.resp = r, !.pc = "cf_open"]
            ELSE Return([tk EXCEPT !.resp = r], r)]
     /\ UNCHANGED <<cacheNames, cacheData, install, activate, notify>>

\* CFOpen storing into the dynamic namespace.
CFOpenDynamic(t) ==
  LET tk == tasks[t]
  IN /\ tk.pc = "cf_open"
     /\ cacheNames' = OpenCache(cacheNames, DYNAMIC_CACHE)
     /\ tasks' = [tasks EXCEPT ![t] =
           Return([tk EXCEPT !.bg = "put", !.bgCache = DYNAMIC_CACHE,
                             !.bgResp = tk.resp], tk.resp)]
     /\ UNCHANGED <<cacheData, install, activate, notify>>

\* await caches.open(STATIC_CACHE) resolves; cache.put is started, not
\* awaited, and networkResponse returned.
CFOpen(t) ==
  LET tk == tasks[t]
  IN /\ tk.pc = "cf_open"
     /\ cacheNames' = OpenCache(cacheNames, STATIC_CACHE)
     /\ tasks' = [tasks EXCEPT ![t] =
           Return([tk EXCEPT !.bg = "put", !.bgCache = STATIC_CACHE,
                             !.bgResp = tk.resp], tk.resp)]
     /\ UNCHANGED <<cacheData, install, activate, notify>>

\* BgFetch with the refresh awaited inside handleRequest's try block.
BgFetchAwaited(t, outcome) ==
  LET tk == tasks[t]
  IN /\ tk.bg = "fetching"
     /\ LET r == FetchResult(Req(tk.req).url, "default", "fetch", outcome) IN
          tasks' = [tasks EXCEPT ![t] =
            IF outcome = "fail"
            THEN Throw([tk EXCEPT !.bg = "failed", !.failed = TRUE], <<"handleRequest">>)
            ELSE IF Ok(r)
            THEN [tk EXCEPT !.bg = "open", !.bgCache = STATIC_CACHE, !.bgResp = r]
            ELSE Return([tk EXCEPT !.bg = "dropped"], r)]
     /\ UNCHANGED <<cacheNames, cacheData, install, activate, notify>>

\* BgFetch without the response.ok test.
BgFetchNoOkTest(t, outcome) ==
  LET tk == tasks[t]
  IN /\ tk.bg = "fetching"
     /\ LET r == FetchResult(Req(tk.req).url, "default", "fetch", outcome) IN
          tasks' = [tasks EXCEPT ![t] =
            IF outcome = "fail" THEN [tk EXCEPT !.bg = "failed"]
            ELSE [tk EXCEPT !.bg = "open", !.bgCache = STATIC_CACHE, !.bgResp = r]]
     /\ UNCHANGED <<cacheNames, cacheData, install, activate, notify>>

\* The refresh fetch of a hit settles: an ok response goes on to
\* caches.open(STATIC_CACHE); anything else is dropped (.catch(() => {})).
BgFetch(t, outcome) ==
  LET tk == tasks[t]
  IN /\ tk.bg = "fetching"
     /\ LET r == FetchResult(Req(tk.req).url, "default", "fetch", outcome) IN
          tasks' = [tasks EXCEPT ![t] =
            IF outcome = "fail" THEN [tk EXCEPT !.bg = "failed"]
            ELSE IF Ok(r)
            THEN [tk EXCEPT !.bg = "open", !.bgCache = STATIC_CACHE, !.bgResp = r]
            ELSE [tk EXCEPT !.bg = "dropped"]]
     /\ UNCHANGED <<cacheNames, cacheData, install, activate, notify>>

\* caches.open(STATIC_CACHE).then(cache => cache.put(...)) of the refresh
BgOpen(t) ==
  LET tk == tasks[t]
  IN /\ tk.bg = "open"
     /\ cacheNames' = OpenCache(cacheNames, tk.bgCache)
     /\ tasks' = [tasks EXCEPT ![t] = [tk EXCEPT !.bg = "put"]]
     /\ UNCHANGED <<cacheData, install, activate, notify>>

\* A started cache.put(request, response.clone()) writes its entry.
CachePut(t) ==
  LET tk == tasks[t]
  IN /\ tk.bg = "put"
     /\ cacheData' = [cacheData EXCEPT ![tk.bgCache][Req(tk.req).url] = tk.bgResp]
     /\ tasks' = [tasks EXCEPT ![t] = [tk EXCEPT !.bg = "stored"]]
     /\ UNCHANGED <<cacheNames, install, activate, notify>>

------------------------------------------------------------------------------
\* getOfflineFallback

\* const cachedIndex = await caches.match('./index.html') resolves.
OFMatch(t) ==
  LET tk    == tasks[t]
      found == MatchIn(cacheNames, cacheData, IndexUrl)
  IN /\ tk.pc = "of_match"
     /\ tasks' = [tasks EXCEPT ![t] =
           IF found # NoEntry
           THEN Return([tk EXCEPT !.shell = "hit"], found)
           ELSE Return([tk EXCEPT !.shell = "miss"], OfflineResponse)]
     /\ UNCHANGED <<cacheNames, cacheData, install, activate, notify>>

------------------------------------------------------------------------------
\* networkFirst and networkFirstWithFallback

\* await fetch(request) settles.
NFFetch(t, outcome) ==
  LET tk == tasks[t]
  IN /\ tk.pc = "nf_fetch"
     /\ LET r == FetchResult(Req(tk.req).url, "default", "fetch", outcome) IN
          tasks' = [tasks EXCEPT ![t] =
            IF outcome = "fail" THEN [tk EXCEPT !.failed = TRUE, !.pc = "nf_match"]
            ELSE IF Ok(r) THEN [tk EXCEPT !.resp = r, !.pc = "nf_open"]
            ELSE Return([tk EXCEPT !.resp = r], r)]
     /\ UNCHANGED <<cacheNames, cacheData, install, activate, notify>>

\* await caches.open(DYNAMIC_CACHE) resolves; cache.put is started, not
\* awaited, and networkResponse returned.
NFOpen(t) ==
  LET tk == tasks[t]
  IN /\ tk.pc = "nf_open"
     /\ cacheNames' = OpenCache(cacheNames, DYNAMIC_CACHE)
     /\ tasks' = [tasks EXCEPT ![t] =
           Return([tk EXCEPT !.bg = "put", !.bgCache = DYNAMIC_CACHE,
                             !.bgResp = tk.resp], tk.resp)]
     /\ UNCHANGED <<cacheData, install, activate, notify>>

\* NFMatch looking only into the dynamic namespace.
NFMatchDynamicOnly(t) ==
  LET tk    == tasks[t]
      found == IF Exists(cacheNames, DYNAMIC_CACHE)
               THEN cacheData[DYNAMIC_CACHE][Req(tk.req).url] ELSE NoEntry
  IN /\ tk.pc = "nf_match"
     /\ tasks' = [tasks EXCEPT ![t] =
           IF found # NoEntry
           THEN Return([tk EXCEPT !.lookup = found], found)
           ELSE Throw(tk, Pop(tk.stack))]
     /\ UNCHANGED <<cacheNames, cacheData, install, activate, notify>>

\* catch: const cachedResponse = await caches.match(request) resolves.
NFMatch(t) ==
  LET tk    == tasks[t]
      found == MatchIn(cacheNames, cacheData, Req(tk.req).url)
  IN /\ tk.pc = "nf_match"
     /\ tasks' = [tasks EXCEPT ![t] =
           IF found # NoEntry
           THEN Return([tk EXCEPT !.lookup = found], found)
           ELSE Throw(tk, Pop(tk.stack))]
     /\ UNCHANGED <<cacheNames, cacheData, install, activate, notify>>

\* networkFirstWithFallback's catch: await caches.match('./index.html')
FBMatch(t) ==
  LET tk    == tasks[t]
      found == MatchIn(cacheNames, cacheData, IndexUrl)
  IN /\ tk.pc = "fb_match"
     /\ tasks' = [tasks EXCEPT ![t] =
           IF found # NoEntry
           THEN Return([tk EXCEPT !.shell = "hit"], found)
           ELSE Throw([tk EXCEPT !.shell = "miss"], Pop(tk.stack))]
     /\ UNCHANGED <<cacheNames, cacheData, install, activate, notify>>

------------------------------------------------------------------------------
\* install

\* InstallRequest with the default cache mode.
InstallRequestDefault(i) == [url |-> Resolve(STATIC_RESOURCES[i]), cache |-> "default"]

\* STATIC_RESOURCES.map(url => new Request(url, { cache: 'reload' }))
InstallRequest(i) == [url |-> Resolve(STATIC_RESOURCES[i]), cache |-> "reload"]

\* InstallSettle without the .catch: a rejection reaches waitUntil.
InstallSettleNoCatch(inst) ==
  IF inst.static = "ok" /\ inst.dynamic = "ok"
  THEN [inst EXCEPT !.pc = "done", !.skipWaiting = TRUE, !.promise = "fulfilled"]
  ELSE IF inst.static = "rejected" \/ inst.dynamic = "rejected"
  THEN [inst EXCEPT !.pc = "done", !.promise = "rejected"]
  ELSE inst

\* Promise.all(...).then(skipWaiting).catch(log): the promise handed to
\* waitUntil settles once both branches fulfilled or one of them rejected; the
\* catch callback returns nothing, so it fulfils after a rejection too.
InstallSettle(inst) ==
  IF inst.static = "ok" /\ inst.dynamic = "ok"
  THEN [inst EXCEPT !.pc = "done", !.skipWaiting = TRUE, !.promise = "fulfilled"]
  ELSE IF inst.static = "rejected" \/ inst.dynamic = "rejected"
  THEN [inst EXCEPT !.pc = "done", !.promise = "fulfilled"]
  ELSE inst

\* self.addEventListener('install', ...): both caches.open calls are started.
InstallEvent ==
  /\ install.pc = "idle"
  /\ install' = [install EXCEPT !.pc = "running", !.static = "opening",
                                !.dynamic = "opening"]
  /\ UNCHANGED <<cacheNames, cacheData, tasks, activate, notify>>

\* caches.open(STATIC_CACHE) resolves and cache.addAll starts its fetches.
InstallOpenStatic ==
  /\ install.static = "opening"
  /\ cacheNames' = OpenCache(cacheNames, STATIC_CACHE)
  /\ install' = [install EXCEPT !.static = "adding"]
  /\ UNCHANGED <<cacheData, tasks, activate, notify>>

\* cache.addAll settles: every response ok -> all entries are written in one
\* batch; a failed fetch or a non-ok response -> it rejects and writes nothing.
InstallAddAll(outcomes) ==
  LET n     == Len(STATIC_RESOURCES)
      rq(i) == InstallRequest(i)
      rs(i) == FetchResult(rq(i).url, rq(i).cache, "install", outcomes[i])
  IN /\ install.static = "adding"
     /\ IF \A i \in 1..n : outcomes[i] = "ok"
        THEN /\ cacheData' = [cacheData EXCEPT ![STATIC_CACHE] =
                  [k \in Keys |->
                     IF \E i \in 1..n : rq(i).url = k
                     THEN rs(CHOOSE i \in 1..n : rq(i).url = k)
                     ELSE @[k]]]
             /\ install' = InstallSettle([install EXCEPT !.static = "ok"])
        ELSE /\ cacheData' = cacheData
             /\ install' = InstallSettle([install EXCEPT !.static = "rejected"])
     /\ UNCHANGED <<cacheNames, tasks, activate, notify>>

\* caches.open(DYNAMIC_CACHE) settles: it resolves, or the host's storage
\* refuses and it rejects.
InstallOpenDynamic(ok) ==
  /\ install.dynamic = "opening"
  /\ cacheNames' = IF ok THEN OpenCache(cacheNames, DYNAMIC_CACHE) ELSE cacheNames
  /\ install' = InstallSettle([install EXCEPT !.dynamic = IF ok THEN "ok" ELSE "rejected"])
  /\ UNCHANGED <<cacheData, tasks, activate, notify>>

------------------------------------------------------------------------------
\* activate

\* IsOldCache without the umbrella name.
IsOldCacheNoUmbrella(cacheName) ==
  /\ cacheName # STATIC_CACHE
  /\ cacheName # DYNAMIC_CACHE

\* The test of the activate handler's map callback.
IsOldCache(cacheName) ==
  /\ cacheName # STATIC_CACHE
  /\ cacheName # DYNAMIC_CACHE
  /\ cacheName # CACHE_NAME

\* self.addEventListener('activate', ...): the host fires it once the install
\* handler's waitUntil promise has fulfilled.  caches.keys() is started.
ActivateEvent ==
  /\ activate.pc = "idle"
  /\ install.pc = "done"
  /\ install.promise = "fulfilled"
  /\ activate' = [activate EXCEPT !.pc = "keys"]
  /\ UNCHANGED <<cacheNames, cacheData, tasks, install, notify>>

\* caches.keys() resolves: caches.delete is started for every old namespace.
ActivateKeys ==
  /\ activate.pc = "keys"
  /\ activate' = [activate EXCEPT
        !.pc = "deleting", !.names = cacheNames,
        !.pending = { cacheNames[i] : i \in { j \in 1..Len(cacheNames) :
                                                IsOldCache(cacheNames[j]) } }]
  /\ UNCHANGED <<cacheNames, cacheData, tasks, install, notify>>

\* One caches.delete(cacheName) completes.
ActivateDelete(n) ==
  /\ activate.pc = "deleting"
  /\ n \in activate.pending
  /\ cacheNames' = Without(cacheNames, n)
  /\ cacheData' = [cacheData EXCEPT ![n] = EmptyCache]
  /\ activate' = [activate EXCEPT !.pending = @ \ {n}]
  /\ UNCHANGED <<tasks, install, notify>>

\* ActivateClaim not waiting for the deletions.
ActivateClaimNoWait ==
  /\ activate.pc = "deleting"
  /\ activate' = [activate EXCEPT !.pc = "done", !.claimed = TRUE]
  /\ UNCHANGED <<cacheNames, cacheData, tasks, install, notify>>

\* Promise.all of the deletions resolved: self.clients.claim()
ActivateClaim ==
  /\ activate.pc = "deleting"
  /\ activate.pending = {}
  /\ activate' = [activate EXCEPT !.pc = "done", !.claimed = TRUE]
  /\ UNCHANGED <<cacheNames, cacheData, tasks, install, notify>>

------------------------------------------------------------------------------
\* notificationclick

\* Window clients clients.matchAll can resolve with, at most this many.
MaxClients == 3

\* self.location.origin
Origin == <<"https:", "//">> \o AppHost

\* event.action: the notification's two actions, or none (a click on its body)
ClickActions == {"open", "dismiss", ""}

\* The window clients of this origin: pages of the app, and a frame a page
\* created from srcdoc (same origin, URL about:srcdoc).
MkClient(url) == [type |-> "window", url |-> url]

WindowClients ==
  { MkClient(Href(Url("root"))), MkClient(Href(Url("data"))),
    MkClient(<<"about:", "srcdoc">>) }

ClientLists == UNION { [1..n -> WindowClients] : n \in 0..MaxClients }

\* 'focus' in client: a WindowClient has the method.
HasFocus(client) == client.type = "window"

\* The focus target taken to be the first client of the list.
FocusTargetFirst(clientList) == IF clientList = <<>> THEN 0 ELSE 1

\* The for loop: the index of the first client the test lets through, 0 if
\* the loop runs to its end.
FocusTarget(clientList) ==
  LET ok == { i \in 1..Len(clientList) :
                Includes(clientList[i].url, Origin) /\ HasFocus(clientList[i]) }
  IN IF ok = {} THEN 0 ELSE CHOOSE i \in ok : \A j \in ok : i <= j

\* clients.openWindow: the host provides it.
HasOpenWindow == TRUE

\* self.addEventListener('notificationclick', ...)
NotificationClick(action) ==
  /\ notify.pc = "idle"
  /\ notify' =
       IF action = "open" \/ action = ""
       THEN [notify EXCEPT !.pc = "matchAll", !.action = action, !.waitUntil = TRUE,
                           !.calls = <<[op |-> "close"]>>]
       ELSE [notify EXCEPT !.pc = "done", !.action = action,
                           !.calls = <<[op |-> "close"]>>]
  /\ UNCHANGED <<cacheNames, cacheData, tasks, install, activate>>

\* clients.matchAll({ type: 'window' }) resolves.
NotifyMatchAll(clientList) ==
  LET i == FocusTarget(clientList)
  IN /\ notify.pc = "matchAll"
     /\ notify' = [notify EXCEPT
          !.pc = "done", !.clients = clientList,
          !.calls = IF i # 0 THEN Append(@, [op |-> "focus", client |-> i])
                    ELSE IF HasOpenWindow
                    THEN Append(@, [op |-> "openWindow", url |-> <<"./">>])
                    ELSE @]
     /\ UNCHANGED <<cacheNames, cacheData, tasks, install, activate>>

------------------------------------------------------------------------------
\* The worker: lifecycle events and fetch events in any interleaving.  Fetch
\* events reach this code while an install or activation of it is under way
\* when the page is controlled by an earlier instance of the same script.

Next ==
  \/ InstallEvent
  \/ InstallOpenStatic
  \/ \E o \in [1..Len(STATIC_RESOURCES) -> Outcomes] : InstallAddAll(o)
  \/ \E ok \in BOOLEAN : InstallOpenDynamic(ok)
  \/ ActivateEvent
  \/ ActivateKeys
  \/ \E n \in AllCaches : ActivateDelete(n)
  \/ ActivateClaim
  \/ \E t \in TaskIds, req \in Requests : FetchEvent(t, req)
  \/ \E t \in TaskIds : CFMatch(t)
  \/ \E t \in TaskIds, o \in Outcomes : CFFetch(t, o)
  \/ \E t \in TaskIds : CFOpen(t)
  \/ \E t \in TaskIds, o \in Outcomes : BgFetch(t, o)
  \/ \E t \in TaskIds : BgOpen(t)
  \/ \E t \in TaskIds : CachePut(t)
  \/ \E t \in TaskIds : OFMatch(t)

Spec == Init /\ [][Next]_vars

------------------------------------------------------------------------------
\* The strategy functions called one by one, as a unit test calls them: each
\* function directly, and each inside handleRequest's try block.

StrategyFns ==
  {"cacheFirst", "networkFirst", "networkFirstWithFallback", "getOfflineFallback"}

CallUnit(t, inHandler, f, req) ==
  /\ NextSlot(t)
  /\ Intercepts(Req(req))
  /\ tasks' = [tasks EXCEPT ![t] =
        Call([IdleTask EXCEPT !.req = req, !.handled = inHandler],
             IF inHandler THEN <<"handleRequest">> ELSE <<>>, f)]
  /\ UNCHANGED <<cacheNames, cacheData, install, activate, notify>>

NextUnit ==
  \/ \E t \in TaskIds, h \in BOOLEAN, f \in StrategyFns, req \in Requests :
        CallUnit(t, h, f, req)
  \/ \E t \in TaskIds : CFMatch(t)
  \/ \E t \in TaskIds, o \in Outcomes : CFFetch(t, o)
  \/ \E t \in TaskIds : CFOpen(t)
  \/ \E t \in TaskIds, o \in Outcomes : BgFetch(t, o)
  \/ \E t \in TaskIds : BgOpen(t)
  \/ \E t \in TaskIds : CachePut(t)
  \/ \E t \in TaskIds, o \in Outcomes : NFFetch(t, o)
  \/ \E t \in TaskIds : NFOpen(t)
  \/ \E t \in TaskIds : NFMatch(t)
  \/ \E t \in TaskIds : FBMatch(t)
  \/ \E t \in TaskIds : OFMatch(t)

SpecUnit == Init /\ [][NextUnit]_vars

------------------------------------------------------------------------------
\* Notification clicks, on their own: the handler touches neither the caches
\* nor the fetch handlers.

NextNotify ==
  \/ \E a \in ClickActions : NotificationClick(a)
  \/ \E cl \in ClientLists : NotifyMatchAll(cl)

SpecNotify == Init /\ [][NextNotify]_vars

------------------------------------------------------------------------------
\* Properties

\* The entries the existing namespaces hold for a URL.
Held(url) ==
  { cacheData[cacheNames[i]][url] : i \in 1..Len(cacheNames) } \ {NoEntry}

Dispatched == { t \in TaskIds : tasks[t].pc # "idle" }

\* The requests the pre-filter is to let through to handleRequest: GET, none
\* of the three denylist patterns in the full URL, scheme http: or https:.
ToIntercept(r) ==
  /\ r.method = "GET"
  /\ ~ \E pat \in { <<"script", ".", "google", ".", "com">>,
                     <<"script", ".", "googleapis", ".", "com">>,
                     <<"googleusercontent", ".", "com">> } :
         Includes(Href(Url(r.url)), pat)
  /\ Url(r.url).protocol \in {"http:", "https:"}

PrefilterInv ==
  \A t \in Dispatched :
     /\ tasks[t].respondWith <=> ToIntercept(Req(tasks[t].req))
     /\ tasks[t].respondWith => tasks[t].handled /\ tasks[t].fn # "none"
     /\ ~tasks[t].respondWith =>
          tasks[t] = [IdleTask EXCEPT !.req = tasks[t].req, !.pc = "passthrough"]

PrefilterStep ==
  \A t \in TaskIds :
     (tasks[t].pc = "idle" /\ tasks'[t].pc # "idle" /\ ~tasks'[t].respondWith)
       => cacheNames' = cacheNames /\ cacheData' = cacheData

\* C1: the fetch listener calls respondWith(handleRequest(request)) iff the
\* request is a GET whose full URL matches none of the three denylist patterns
\* and whose scheme is http: or https:; for every other request it starts no
\* fetch, reads no cache and leaves every cache namespace unchanged.
C1_Prefilter == []PrefilterInv /\ [][PrefilterStep]_vars

\* C1 witness: a GET request was dispatched and passed through.
C1_Witness ==
  \E t \in TaskIds : tasks[t].pc = "passthrough" /\ Req(tasks[t].req).method = "GET"

\* The first-match-wins classification of spec section 4.1.
RefStrategy(r) ==
  IF Url(r.url).pathname \in { Url(k).pathname : k \in AssetUrls } THEN "cacheFirst"
  ELSE IF Includes(r.accept, <<"text/html">>) THEN "networkFirstWithFallback"
  ELSE IF Includes(r.accept, <<"image/">>) THEN "cacheFirst"
  ELSE "networkFirst"

\* C2: the strategy handleRequest runs for an intercepted request is the one
\* the first-match-wins classification names (app-shell path -> cacheFirst,
\* else text/html -> networkFirstWithFallback, else image/ -> cacheFirst, else
\* networkFirst).
C2_Classification ==
  \A t \in TaskIds :
     tasks[t].respondWith => tasks[t].fn = RefStrategy(Req(tasks[t].req))

\* A step of task t out of program point pc.
Leaves(t, pc) == tasks[t].pc = pc /\ tasks'[t].pc # pc

NetworkFirstLookup ==
  \A t \in TaskIds :
     Leaves(t, "nf_match") =>
       LET url == Req(tasks[t].req).url
       IN /\ tasks[t].failed
          /\ cacheNames' = cacheNames /\ cacheData' = cacheData
          /\ IF Held(url) # {}
             THEN /\ tasks'[t].outcome.kind = "fulfilled"
                  /\ tasks'[t].outcome.value \in Held(url)
             ELSE (~tasks[t].handled /\ tasks[t].fn = "networkFirst")
                    => tasks'[t].outcome = [kind |-> "rejected", value |-> NetworkError]

NetworkFirstNoWrite ==
  \A t \in TaskIds :
     (tasks[t].fn \in {"networkFirst", "networkFirstWithFallback"} /\ tasks[t].failed)
       => tasks[t].bg = "none" /\ tasks[t].bgIssued = 0

\* C3: when its live fetch fails with a transport error, networkFirst returns
\* the cached response for the request if an existing namespace holds one and
\* otherwise rethrows the network error; either way it starts no cache write.
C3_NetworkFirstOffline == []NetworkFirstNoWrite /\ [][NetworkFirstLookup]_vars

\* C3 witness: a direct networkFirst call whose fetch failed returned the
\* cached entry.
C3_Witness ==
  \E t \in TaskIds :
     /\ ~tasks[t].handled /\ tasks[t].fn = "networkFirst" /\ tasks[t].failed
     /\ tasks[t].pc = "done" /\ tasks[t].outcome.kind = "fulfilled"
     /\ tasks[t].lookup # NoEntry /\ tasks[t].outcome.value = tasks[t].lookup

CacheFirstHitStep ==
  \A t \in TaskIds :
     (Leaves(t, "cf_match") /\ Held(Req(tasks[t].req).url) # {}) =>
        /\ tasks'[t].outcome.kind = "fulfilled"
        /\ tasks'[t].outcome.value \in Held(Req(tasks[t].req).url)
        /\ tasks'[t].bgIssued = tasks[t].bgIssued + 1
        /\ tasks'[t].bg = "fetching"

CacheFirstHitInv ==
  \A t \in TaskIds :
     /\ (tasks[t].fn = "cacheFirst" /\ tasks[t].lookup # NoEntry) =>
          /\ tasks[t].pc = "done"
          /\ tasks[t].outcome = [kind |-> "fulfilled", value |-> tasks[t].lookup]
          /\ tasks[t].bgIssued = 1
     /\ tasks[t].bgIssued <= 1

\* C4: on a cache hit cacheFirst returns the entry in the turn in which it
\* starts the refresh fetch, so while that fetch is still pending, and the call
\* starts exactly one refresh fetch, in every later state too.
C4_CacheFirstHit == []CacheFirstHitInv /\ [][CacheFirstHitStep]_vars

\* C4 witness: a hit has been delivered while its refresh fetch is pending.
C4_Witness ==
  \E t \in TaskIds :
     /\ tasks[t].respondWith /\ tasks[t].lookup # NoEntry
     /\ tasks[t].outcome.kind = "fulfilled" /\ tasks[t].bg = "fetching"

\* Intercepted navigation requests a live fetch of which failed.
NavFailed ==
  { t \in TaskIds : /\ tasks[t].respondWith
                    /\ Req(tasks[t].req).mode = "navigate"
                    /\ (tasks[t].failed \/ tasks[t].bg = "failed") }

IsOfflineNotice(v) ==
  /\ v.kind = "synthetic"
  /\ v.status = 200
  /\ v.contentType = "application/json"
  /\ v.body.error = "Offline"

\* C5 as stated: an intercepted navigation request whose live fetch failed
\* while the caches hold an app-shell entry is answered with the app shell.
C5_Original ==
  \A t \in NavFailed :
     (tasks[t].pc = "done" /\ Held(IndexUrl) # {}) =>
        /\ tasks[t].outcome.kind = "fulfilled"
        /\ tasks[t].outcome.value.kind = "net"
        /\ tasks[t].outcome.value.url = IndexUrl

ShellLookupInv ==
  \A t \in TaskIds :
     (tasks[t].respondWith /\ Req(tasks[t].req).mode = "navigate" /\ tasks[t].failed)
       => /\ tasks[t].lookup = NoEntry
          /\ tasks[t].pc \in {"of_match", "done"}
          /\ tasks[t].pc = "done" => tasks[t].shell # "unread"
          /\ (tasks[t].pc = "done" /\ tasks[t].shell = "hit") =>
                /\ tasks[t].outcome.kind = "fulfilled"
                /\ tasks[t].outcome.value.kind = "net"
                /\ tasks[t].outcome.value.url = IndexUrl

ShellLookupStep ==
  \A t \in TaskIds :
     (Leaves(t, "of_match") /\ tasks[t].respondWith /\ Held(IndexUrl) # {}) =>
        /\ tasks'[t].outcome.kind = "fulfilled"
        /\ tasks'[t].outcome.value \in Held(IndexUrl)

\* C5 (amended): an intercepted navigation request for which no cache held an
\* entry and whose awaited live fetch failed goes on to look up './index.html',
\* and is answered with the cached app-shell entry if the caches hold one at
\* that lookup.
C5_AppShellFallback == []ShellLookupInv /\ [][ShellLookupStep]_vars

\* C5 witness: a failed navigation to a page other than the app shell was
\* answered with the cached app shell.
C5_Witness ==
  \E t \in NavFailed :
     /\ tasks[t].failed /\ tasks[t].pc = "done" /\ tasks[t].shell = "hit"
     /\ Req(tasks[t].req).url # IndexUrl
     /\ tasks[t].outcome.value.url = IndexUrl

\* C6 as stated: an intercepted navigation request whose live fetch failed
\* while no namespace holds an app-shell entry is answered with the 200 JSON
\* offline notice.
C6_Original ==
  \A t \in NavFailed :
     (tasks[t].pc = "done" /\ Held(IndexUrl) = {}) =>
        /\ tasks[t].outcome.kind = "fulfilled"
        /\ IsOfflineNotice(tasks[t].outcome.value)

OfflineNoticeInv ==
  \A t \in NavFailed :
     (tasks[t].failed /\ tasks[t].pc = "done" /\ tasks[t].shell = "miss") =>
        /\ tasks[t].outcome.kind = "fulfilled"
        /\ IsOfflineNotice(tasks[t].outcome.value)

OfflineNoticeStep ==
  \A t \in TaskIds :
     (Leaves(t, "of_match") /\ tasks[t].respondWith /\ Held(IndexUrl) = {}) =>
        /\ tasks'[t].pc = "done"
        /\ tasks'[t].shell = "miss"
        /\ tasks'[t].outcome.kind = "fulfilled"
        /\ IsOfflineNotice(tasks'[t].outcome.value)

\* C6 (amended): an intercepted navigation request for which no cache held an
\* entry and whose awaited live fetch failed is answered with the synthetic
\* response (status 200, application/json, error 'Offline') if no namespace
\* holds an app-shell entry when './index.html' is looked up.
C6_OfflineNotice == []OfflineNoticeInv /\ [][OfflineNoticeStep]_vars

\* C6 witness: a failed navigation found no app shell and got the notice.
C6_Witness ==
  \E t \in NavFailed :
     /\ tasks[t].failed /\ tasks[t].pc = "done" /\ tasks[t].shell = "miss"
     /\ IsOfflineNotice(tasks[t].outcome.value)

KnownNames ==
  {"attendance-static-v1.2", "attendance-dynamic-v1.2", "attendance-pwa-v1.2"}

Existing == { cacheNames[i] : i \in 1..Len(cacheNames) }

\* The namespaces caches.keys() listed for the activate handler.
Enumerated == { activate.names[i] : i \in 1..Len(activate.names) }

ActivateDoneInv ==
  activate.pc = "done" =>
    /\ activate.claimed
    /\ Existing \subseteq KnownNames
    /\ Existing \cap Enumerated = Enumerated \cap KnownNames
    /\ Existing \ Enumerated \subseteq {STATIC_CACHE, DYNAMIC_CACHE}

ActivateStep ==
  activate' # activate =>
    /\ \A n \in KnownNames :
         /\ cacheData'[n] = cacheData[n]
         /\ Exists(cacheNames', n) <=> Exists(cacheNames, n)
    /\ \A n \in AllCaches :
         (Exists(cacheNames, n) /\ ~Exists(cacheNames', n)) => n \in Enumerated

\* C7: once the activate handler's work is complete, of the namespaces it
\* enumerated exactly those named attendance-static-v1.2,
\* attendance-dynamic-v1.2 or attendance-pwa-v1.2 exist and no namespace of
\* another name exists; no step of the activation changes an entry of the three
\* or removes one of them.
C7_ActivateCleanup == []ActivateDoneInv /\ [][ActivateStep]_vars

\* C7 witness: an activation that found old namespaces and the umbrella
\* namespace is complete.
C7_Witness ==
  /\ activate.pc = "done"
  /\ {OLD_CACHE, OLD_DYNAMIC, CACHE_NAME} \subseteq Enumerated
  /\ CACHE_NAME \in Existing

InstallEntry(k) == NetResp(k, 200, "install", "reload")

InstallAddAllStep ==
  (install.static = "adding" /\ install'.static = "ok") =>
    /\ Exists(cacheNames', STATIC_CACHE)
    /\ \A k \in Keys :
         cacheData'[STATIC_CACHE][k] =
           IF k \in { Resolve(<<"./">>), Resolve(<<"./", "index.html">>),
                      Resolve(<<"./", "manifest.json">>), Resolve(<<"./", "logo.png">>) }
           THEN InstallEntry(k)
           ELSE cacheData[STATIC_CACHE][k]
    /\ \A n \in AllCaches \ {STATIC_CACHE} : cacheData'[n] = cacheData[n]

C9_OnlyOkCached ==
  /\ \A n \in {STATIC_CACHE, DYNAMIC_CACHE}, k \in Keys :
       cacheData[n][k] # NoEntry => Ok(cacheData[n][k])
  /\ \A t \in TaskIds :
       /\ tasks[t].bg \in {"open", "put", "stored"} => Ok(tasks[t].bgResp)
       /\ (tasks[t].resp # NoEntry /\ ~Ok(tasks[t].resp)) =>
            /\ tasks[t].pc = "done"
            /\ tasks[t].outcome = [kind |-> "fulfilled", value |-> tasks[t].resp]
            /\ tasks[t].bg = "none"

\* C9 witness: a 404 was returned to the page and is in no cache.
C9_Witness ==
  \E t \in TaskIds :
     /\ tasks[t].respondWith /\ tasks[t].pc = "done"
     /\ tasks[t].resp # NoEntry /\ tasks[t].resp.status = 404
     /\ tasks[t].outcome.value = tasks[t].resp
     /\ Held(Req(tasks[t].req).url) = {}

\* Intercepted requests a live fetch of which failed.
FetchFailed ==
  { t \in TaskIds : tasks[t].respondWith /\ (tasks[t].failed \/ tasks[t].bg = "failed") }

\* C10: handleRequest never rejects, and a request whose live fetch failed
\* with a transport error is answered with a success status: by a cached
\* response or by the synthetic 200 JSON offline notice.
C10_NoErrorSurfaced ==
  /\ \A t \in TaskIds :
       (tasks[t].respondWith /\ tasks[t].pc = "done") => tasks[t].outcome.kind = "fulfilled"
  /\ \A t \in FetchFailed :
       tasks[t].pc = "done" =>
         /\ tasks[t].outcome.value.status \in 200..299
         /\ \/ IsOfflineNotice(tasks[t].outcome.value)
            \/ tasks[t].lookup # NoEntry /\ tasks[t].outcome.value = tasks[t].lookup
            \/ /\ tasks[t].shell = "hit"
               /\ tasks[t].outcome.value.kind = "net"
               /\ tasks[t].outcome.value.url = IndexUrl

\* C10 witness: a request that is no navigation failed on the network with
\* nothing cached and was answered with the offline notice.
C10_Witness ==
  \E t \in FetchFailed :
     /\ Req(tasks[t].req).mode # "navigate" /\ tasks[t].failed
     /\ tasks[t].pc = "done" /\ IsOfflineNotice(tasks[t].outcome.value)

\* A cache.put task t has started and not yet committed, and its entry.
WritePending(t) == tasks[t].bg \in {"open", "put"}
WriteTarget(t) == <<tasks[t].bgCache, Req(tasks[t].req).url>>

\* The install handler is running and its addAll has written the app-shell
\* entries of the static namespace.
InstallWrote == install.pc = "running" /\ install.static = "ok"

\* C11 as stated: no cache entry (namespace, request key) is written by two
\* tasks whose executions overlap: no two fetch handlers in flight hold a
\* started write to the same entry, and no fetch handler in flight holds a
\* started write to an entry the still-running install handler has written.
C11_NoOverlappingWrites ==
  /\ \A t, u \in TaskIds :
       (t # u /\ WritePending(t) /\ WritePending(u)) => WriteTarget(t) # WriteTarget(u)
  /\ \A t \in TaskIds :
       (WritePending(t) /\ InstallWrote) =>
          ~ (tasks[t].bgCache = STATIC_CACHE /\ WriteTarget(t)[2] \in AssetUrls)

\* The cache writes task t has started or committed.
WriteStarted(t) == tasks[t].bg \in {"open", "put", "stored"}

\* C12 as stated: every entry the worker writes into the static namespace is
\* keyed by one of the fixed app-shell assets, every other response a handler
\* caches goes to the dynamic namespace, and the umbrella namespace
\* attendance-pwa-v1.2 never gets an entry.
C12_NamespaceSeparation ==
  /\ \A k \in Keys :
       (cacheData[STATIC_CACHE][k] # NoEntry /\ cacheData[STATIC_CACHE][k].by # "pre")
         => k \in AssetUrls
  /\ \A t \in TaskIds :
       (WriteStarted(t) /\ Req(tasks[t].req).url \notin AssetUrls)
         => tasks[t].bgCache = DYNAMIC_CACHE
  /\ cacheData[CACHE_NAME] = EmptyCache

\* The static namespace exists and holds an entry for the URL.
StaticHolds(url) ==
  Exists(cacheNames, STATIC_CACHE) /\ cacheData[STATIC_CACHE][url] # NoEntry

\* C13 as stated: cacheFirst takes the hit path (returns a cached response
\* without awaiting a live fetch) exactly when the static namespace holds an
\* entry for the request.
C13_Original ==
  [][\A t \in TaskIds :
        Leaves(t, "cf_match") =>
          (tasks'[t].pc = "done" <=> StaticHolds(Req(tasks[t].req).url))]_vars

CacheFirstLookupStep ==
  \A t \in TaskIds :
     Leaves(t, "cf_match") =>
       LET url == Req(tasks[t].req).url
       IN /\ tasks'[t].pc = "done" <=> Held(url) # {}
          /\ Held(url) # {} =>
               /\ tasks'[t].outcome =
                    [kind |-> "fulfilled", value |-> MatchIn(cacheNames, cacheData, url)]
               /\ tasks'[t].lookup = tasks'[t].outcome.value
          /\ Held(url) = {} =>
               /\ tasks'[t].pc = "cf_fetch"
               /\ tasks'[t].outcome.kind = "pending"
               /\ tasks'[t].bgIssued = 0

\* C13 (amended): cacheFirst takes the hit path exactly when some existing
\* namespace (static, dynamic or one left by an earlier release) holds an entry
\* for the request, and then returns the entry of the first such namespace in
\* creation order; when no namespace holds one the request is a miss and the
\* live fetch is awaited.
C13_CacheFirstLookup == [][CacheFirstLookupStep]_vars

\* C13 witness: cacheFirst returned a cached entry for a request the static
\* namespace holds no entry for.
C13_Witness ==
  \E t \in TaskIds :
     /\ tasks[t].fn = "cacheFirst" /\ tasks[t].pc = "done"
     /\ tasks[t].lookup # NoEntry /\ tasks[t].outcome.value = tasks[t].lookup
     /\ tasks[t].bg = "fetching"
     /\ ~StaticHolds(Req(tasks[t].req).url)

\* cacheFirst calls whose lookup found no entry.
CacheFirstMisses ==
  { t \in TaskIds : /\ tasks[t].fn = "cacheFirst"
                    /\ tasks[t].pc \notin {"idle", "passthrough", "cf_match"}
                    /\ tasks[t].lookup = NoEntry }

CacheFirstMissInv ==
  \A t \in CacheFirstMisses :
     LET tk == tasks[t] IN
     /\ tk.bgIssued = 0
     /\ tk.pc = "cf_fetch" => tk.outcome.kind = "pending" /\ tk.bg = "none"
     /\ (tk.pc = "done" /\ tk.resp # NoEntry /\ Ok(tk.resp)) =>
          /\ tk.outcome = [kind |-> "fulfilled", value |-> tk.resp]
          /\ tk.resp.url = Req(tk.req).url
          /\ tk.bg \in {"put", "stored"}
          /\ tk.bgCache = STATIC_CACHE /\ tk.bgResp = tk.resp
     /\ tk.failed =>
          /\ tk.bg = "none"
          /\ (~tk.handled /\ tk.pc = "done") =>
                tk.outcome = [kind |-> "rejected", value |-> NetworkError]

CacheFirstMissStep ==
  \A t \in TaskIds :
     /\ (Leaves(t, "cf_fetch") /\ tasks'[t].failed) =>
          /\ cacheNames' = cacheNames /\ cacheData' = cacheData
          /\ tasks[t].handled => tasks'[t].pc = "of_match" \/ tasks'[t].pc = "done"
     /\ (t \in CacheFirstMisses /\ tasks[t].bg = "put" /\ tasks'[t].bg = "stored") =>
          /\ cacheNames' = cacheNames
          /\ cacheData'[STATIC_CACHE][Req(tasks[t].req).url] = tasks[t].resp
          /\ \A n \in AllCaches \ {STATIC_CACHE} : cacheData'[n] = cacheData[n]
          /\ \A k \in Keys \ {Req(tasks[t].req).url} :
               cacheData'[STATIC_CACHE][k] = cacheData[STATIC_CACHE][k]

\* C14: on a miss cacheFirst issues the one awaited live fetch and no other;
\* an ok response is returned and written into the static namespace and into
\* no other; a transport failure is thrown out of cacheFirst (a direct call
\* rejects with the network error) and the call modifies no namespace.
C14_CacheFirstMiss == []CacheFirstMissInv /\ [][CacheFirstMissStep]_vars

\* C14 witness: a direct cacheFirst call missed, fetched an ok response and
\* its entry is in the static namespace only.
C14_Witness ==
  \E t \in CacheFirstMisses :
     /\ ~tasks[t].handled /\ tasks[t].bg = "stored"
     /\ cacheData[STATIC_CACHE][Req(tasks[t].req).url] = tasks[t].resp
     /\ \A n \in AllCaches \ {STATIC_CACHE} :
          cacheData[n][Req(tasks[t].req).url] = NoEntry

\* Calls that ran networkFirst and returned its ok network response.
NetworkFirstReturnedOk ==
  { t \in TaskIds : /\ tasks[t].fn \in {"networkFirst", "networkFirstWithFallback"}
                    /\ tasks[t].pc = "done"
                    /\ tasks[t].resp # NoEntry /\ Ok(tasks[t].resp)
                    /\ tasks[t].outcome = [kind |-> "fulfilled", value |-> tasks[t].resp] }

\* C15 as stated: whenever networkFirst has returned an ok network response
\* for request R, the dynamic namespace holds an entry for R, from the moment
\* of the return on; the call writes nothing into the static namespace.
C15_StoredBeforeReturn ==
  \A t \in NetworkFirstReturnedOk :
     /\ Exists(cacheNames, DYNAMIC_CACHE)
     /\ cacheData[DYNAMIC_CACHE][Req(tasks[t].req).url] # NoEntry
     /\ tasks[t].bgCache # STATIC_CACHE

\* cacheFirst calls whose lookup found an entry.
CacheFirstHits ==
  { t \in TaskIds : tasks[t].fn = "cacheFirst" /\ tasks[t].lookup # NoEntry }

RefreshUnobservedInv ==
  \A t \in CacheFirstHits :
     /\ tasks[t].bg \in {"fetching", "failed", "dropped", "open", "put", "stored"}
     /\ tasks[t].pc = "done"
     /\ tasks[t].outcome = [kind |-> "fulfilled", value |-> tasks[t].lookup]
     /\ ~tasks[t].failed
     /\ tasks[t].shell = "unread"

RefreshUnobservedStep ==
  \A t \in CacheFirstHits :
     /\ tasks'[t].outcome = tasks[t].outcome
     /\ (tasks[t].bg = "fetching" /\ tasks'[t].bg \in {"failed", "dropped"}) =>
          /\ cacheNames' = cacheNames /\ cacheData' = cacheData
          /\ tasks'[t] = [tasks[t] EXCEPT !.bg = tasks'[t].bg]
     /\ tasks[t].bg \in {"failed", "dropped"} => tasks'[t] = tasks[t]

\* C16: the response cacheFirst returns on a hit is the entry its lookup
\* found and stays the delivered response whatever the refresh fetch does (ok,
\* non-ok, transport failure, still pending); a failed or non-ok refresh
\* changes no cache entry, starts no write, and never reaches handleRequest's
\* catch block or getOfflineFallback.
C16_RefreshUnobserved == []RefreshUnobservedInv /\ [][RefreshUnobservedStep]_vars

\* C16 witness: the refresh of a delivered hit failed on the network.
C16_Witness ==
  \E t \in CacheFirstHits :
     /\ tasks[t].respondWith /\ tasks[t].bg = "failed"
     /\ tasks[t].outcome = [kind |-> "fulfilled", value |-> tasks[t].lookup]

ClaimOrderInv ==
  /\ activate.claimed => activate.pc = "done" /\ activate.pending = {}
  /\ activate.pc \in {"idle", "keys"} => ~activate.claimed /\ activate.names = <<>>
  /\ activate.claimed => \A n \in Enumerated \cap Existing : n \in KnownNames

ClaimOrderStep ==
  (~activate.claimed /\ activate'.claimed) =>
     /\ activate.pc = "deleting"
     /\ activate.pending = {}
     /\ \A n \in Enumerated : IsOldCache(n) => ~Exists(cacheNames, n)
     /\ cacheNames' = cacheNames /\ cacheData' = cacheData

\* C17: clients.claim() is invoked only after caches.keys() has resolved and
\* every caches.delete the handler started has completed: at the step that
\* invokes it, and ever after, no namespace of the enumerated set other than
\* the known three exists.
C17_ClaimAfterCleanup == []ClaimOrderInv /\ [][ClaimOrderStep]_vars

\* C17 witness: the pages were claimed after two old namespaces had been
\* enumerated and deleted.
C17_Witness ==
  /\ activate.claimed
  /\ {OLD_CACHE, OLD_DYNAMIC} \subseteq Enumerated
  /\ {OLD_CACHE, OLD_DYNAMIC} \cap Existing = {}

\* The clients of the resolved list whose URL contains this app's origin.
OriginClients ==
  { i \in 1..Len(notify.clients) :
      Includes(notify.clients[i].url, <<"https:", "//", "app", ".", "example">>) }

Focused == { i \in 1..Len(notify.calls) : notify.calls[i].op = "focus" }
Opened  == { i \in 1..Len(notify.calls) : notify.calls[i].op = "openWindow" }

InstallFailed == install.static = "rejected" \/ install.dynamic = "rejected"

InstallSwallowInv ==
  /\ install.skipWaiting => install.static = "ok" /\ install.dynamic = "ok"
  /\ InstallFailed =>
       /\ ~install.skipWaiting
       /\ install.pc = "done"
       /\ install.promise = "fulfilled"
  /\ install.promise # "rejected"
  /\ activate.pc # "idle" => install.promise = "fulfilled"

InstallSwallowStep ==
  /\ (~install.skipWaiting /\ install'.skipWaiting) =>
        /\ install'.static = "ok" /\ install'.dynamic = "ok"
        /\ Exists(cacheNames', STATIC_CACHE) /\ Exists(cacheNames', DYNAMIC_CACHE)
  /\ (install.static = "adding" /\ install'.static = "rejected") =>
        cacheData' = cacheData

\* C19: when the population of the static namespace fails (an app-shell fetch
\* fails or returns a non-ok response) or the open of the dynamic namespace
\* fails, skipWaiting is never invoked and the promise given to waitUntil
\* fulfils all the same, so the worker goes on to activate; skipWaiting is
\* invoked only once the population and the open have both succeeded.
C19_InstallFailureSwallowed == []InstallSwallowInv /\ [][InstallSwallowStep]_vars

\* C19 witness: after an install whose addAll was rejected the worker has
\* activated and claimed the pages with no app-shell entry in the static
\* namespace, skipWaiting never invoked.
C19_Witness ==
  /\ install.static = "rejected" /\ install.promise = "fulfilled"
  /\ ~install.skipWaiting
  /\ activate.claimed
  /\ \A k \in AssetUrls : cacheData[STATIC_CACHE][k] = NoEntry

\* handleRequest calls that run networkFirst or networkFirstWithFallback.
HandledNetworkFirst ==
  { t \in TaskIds : /\ tasks[t].handled
                    /\ tasks[t].fn \in {"networkFirst", "networkFirstWithFallback"} }

\* The response for a request whose live fetch failed and that has no cached
\* entry of its own, from the content of the caches: the app shell for a
\* navigation if a namespace holds it, else the offline notice.
ShellOrNotice(req, names, data) ==
  IF Req(req).mode = "navigate" /\ MatchIn(names, data, IndexUrl) # NoEntry
  THEN MatchIn(names, data, IndexUrl)
  ELSE OfflineResponse

\* What either strategy has delivered and written, in terms that do not name
\* the strategy.
SameDeliveryInv ==
  \A t \in HandledNetworkFirst :
     LET tk == tasks[t] IN
     /\ tk.pc = "done" => tk.outcome.kind = "fulfilled"
     /\ (tk.pc = "done" /\ ~tk.failed) =>
          /\ tk.outcome.value = tk.resp
          /\ IF Ok(tk.resp)
             THEN /\ tk.bg \in {"put", "stored"}
                  /\ tk.bgCache = DYNAMIC_CACHE /\ tk.bgResp = tk.resp
             ELSE tk.bg = "none"
     /\ tk.failed => tk.bg = "none" /\ tk.bgIssued = 0
     /\ tk.pc \in {"fb_match", "of_match"} => tk.failed /\ tk.lookup = NoEntry

\* The steps after a failed fetch, in terms that do not name the strategy: the
\* request's own entry if a namespace holds one; else, at the lookup that ends
\* the call, the app shell (navigation) or the notice.  networkFirstWithFallback
\* differs by one more lookup of the app shell, taken only when the first one
\* found nothing, and no step changes a cache.
SameDeliveryStep ==
  \A t \in HandledNetworkFirst :
     LET tk  == tasks[t]
         url == Req(tk.req).url
     IN (tk.failed /\ tk.pc # "done" /\ tasks'[t] # tk) =>
          /\ cacheNames' = cacheNames /\ cacheData' = cacheData
          /\ tasks'[t].bg = "none"
          /\ tk.pc = "nf_match" =>
               IF Held(url) # {}
               THEN tasks'[t].outcome =
                      [kind |-> "fulfilled", value |-> MatchIn(cacheNames, cacheData, url)]
               ELSE IF Req(tk.req).mode = "navigate"
               THEN /\ tasks'[t].pc \in {"fb_match", "of_match"}
                    /\ tasks'[t].outcome.kind = "pending"
               ELSE tasks'[t].outcome = [kind |-> "fulfilled", value |-> OfflineResponse]
          /\ tk.pc \in {"fb_match", "of_match"} =>
               \/ tasks'[t].outcome =
                    [kind |-> "fulfilled",
                     value |-> ShellOrNotice(tk.req, cacheNames, cacheData)]
               \/ /\ tk.pc = "fb_match" /\ tasks'[t].pc = "of_match"
                  /\ MatchIn(cacheNames, cacheData, IndexUrl) = NoEntry
                  /\ tasks'[t].outcome.kind = "pending"

\* C20: inside handleRequest, networkFirstWithFallback and networkFirst
\* deliver the same response and make the same cache writes for every request,
\* network outcome and cache content: the network response (stored in the
\* dynamic namespace when ok), else the request's cached entry, else for a
\* navigation the cached app shell, else the offline notice.
C20_FallbackEquivalent == []SameDeliveryInv /\ [][SameDeliveryStep]_vars

\* C20 witness: a navigation handled by networkFirstWithFallback failed on
\* the network, had no entry of its own, and was answered with the cached app
\* shell.
C20_Witness ==
  \E t \in HandledNetworkFirst :
     /\ tasks[t].fn = "networkFirstWithFallback"
     /\ Req(tasks[t].req).mode = "navigate" /\ Req(tasks[t].req).url # IndexUrl
     /\ tasks[t].failed /\ tasks[t].pc = "done" /\ tasks[t].shell = "hit"
     /\ tasks[t].outcome.value.url = IndexUrl

====
